---- MODULE Spec2Model ----
(***************************************************************************)
(* Zone-sequential merit-order clearing of the GB balancing market, as in  *)
(* scripts/IV_clear_balancing_market.py.                                    *)
(*                                                                         *)
(* Units.  Volumes (volume_mw, flex_up_mwh, required_volume, ...) are      *)
(* integers counting twentieths of a MWh (0.05 MWh), so that the clearing  *)
(* tolerance 0.1 MWh of the source is Eps = 2 and volumes on both sides of *)
(* the tolerance exist.  Costs are integers counting fortieths of a GBP:   *)
(* the source's  price * accept_volume * 0.5  is then price * accept.      *)
(* Prices are integers (GBP/MWh) and may be negative.                      *)
(*                                                                         *)
(* A DataFrame is a sequence of rows; a row keeps its index label in the   *)
(* field idx, which filtering and sorting preserve.                        *)
(***************************************************************************)
EXTENDS Integers, Sequences, FiniteSets, TLC

\* ---------------------------------------------------------------- bounds
MaxVol == 4        \* largest volume_mw of a stack row handed to a routine
MaxReq == 5        \* largest required volume / flexibility magnitude
MaxRows == 3       \* rows of a stack handed directly to a clearing routine

\* ------------------------------------------------------ program constants
Eps == 2           \* 0.1 MWh, in units of 0.05 MWh

\* variant: the zone list of the docstring, without the catch-all zone
zone_order_NoUnknown == <<"red", "orange", "green", "blue", "purple", "yellow">>

zone_order == <<"red", "orange", "green", "blue", "purple", "yellow", "unknown">>

\* ------------------------------------------------------------- utilities
Min(a, b) == IF a <= b THEN a ELSE b
Max(a, b) == IF a >= b THEN a ELSE b

RECURSIVE SumOver(_, _)
\* sum of Op-free sequence of integers
SumOver(s, k) == IF k = 0 THEN 0 ELSE s[k] + SumOver(s, k - 1)

SeqSum(s) == SumOver(s, Len(s))

Volumes(df) == [k \in 1..Len(df) |-> df[k].volume_mw]

TotalVolume(df) == SeqSum(Volumes(df))

\* ------------------------------------------------- DataFrame.sort_values
\* sort_values('price') is called without kind=, so pandas hands the column
\* to numpy's default 'quicksort', which promises no order among rows of
\* equal price: short arrays happen to go through an insertion sort, which
\* keeps them in arrival order, longer arrays and vectorised builds do not.
\* The order is a property of the build and of the frame, fixed for a run;
\* tie_order keeps two of the outcomes: equal prices in arrival order
\* ("arrival") and equal prices in the opposite order ("reversed").
VARIABLE tie_order     \* how this build's sort orders rows of equal price

RECURSIVE InsertAscending(_, _)
InsertAscending(row, s) ==
    IF s = <<>> THEN <<row>>
    ELSE IF Head(s).price <= row.price
         THEN <<Head(s)>> \o InsertAscending(row, Tail(s))
         ELSE <<row>> \o s

RECURSIVE InsertDescending(_, _)
InsertDescending(row, s) ==
    IF s = <<>> THEN <<row>>
    ELSE IF Head(s).price >= row.price
         THEN <<Head(s)>> \o InsertDescending(row, Tail(s))
         ELSE <<row>> \o s

RECURSIVE SortAscendingFrom(_, _, _)
SortAscendingFrom(df, k, acc) ==
    IF k > Len(df) THEN acc
    ELSE SortAscendingFrom(df, k + 1, InsertAscending(df[k], acc))

RECURSIVE SortDescendingFrom(_, _, _)
SortDescendingFrom(df, k, acc) ==
    IF k > Len(df) THEN acc
    ELSE SortDescendingFrom(df, k + 1, InsertDescending(df[k], acc))

Reverse(s) == [k \in 1..Len(s) |-> s[Len(s) + 1 - k]]

\* variant: the offers are walked in arrival order
SortByPriceAscending_Unsorted(df) == df

\* available_offers.sort_values('price', ascending=True).copy()
SortByPriceAscending(df) ==
    IF tie_order = "arrival"
    THEN SortAscendingFrom(df, 1, <<>>)
    ELSE Reverse(SortDescendingFrom(df, 1, <<>>))

\* available_bids.sort_values('price', ascending=False).copy()
SortByPriceDescending(df) ==
    IF tie_order = "arrival"
    THEN SortDescendingFrom(df, 1, <<>>)
    ELSE Reverse(SortAscendingFrom(df, 1, <<>>))

\* variant: the accepted volume is not taken off the frame
SubtractAtLoc_Skipped(df, idx, accept_volume) == df

\* df.loc[idx, 'volume_mw'] -= accept_volume : every row labelled idx
SubtractAtLoc(df, idx, accept_volume) ==
    [k \in 1..Len(df) |->
        IF df[k].idx = idx
        THEN [df[k] EXCEPT !.volume_mw = @ - accept_volume]
        ELSE df[k]]

\* ------------------------------------------- single-direction clearing
\* variant: an action is charged for the whole volume of its entry
AcceptedAction_WholeEntryCost(row, zone, settlement_timestamp, action_type, accept_volume) ==
    [timestamp     |-> settlement_timestamp,
     zone          |-> zone,
     unit_id       |-> row.unit_id,
     carrier_type  |-> row.carrier_type,
     pair_id       |-> row.pair_id,
     action_type   |-> action_type,
     volume_mwh    |-> accept_volume,
     price_per_mwh |-> row.price,
     cost_gbp      |-> row.price * row.volume_mw,
     idx           |-> row.idx]

\* The dict appended to accepted_actions.  The field idx is not in the
\* source's dict: it records the index label of the row the slice was
\* taken from, so that slices can be attributed to rows.
AcceptedAction(row, zone, settlement_timestamp, action_type, accept_volume) ==
    [timestamp     |-> settlement_timestamp,
     zone          |-> zone,
     unit_id       |-> row.unit_id,
     carrier_type  |-> row.carrier_type,
     pair_id       |-> row.pair_id,
     action_type   |-> action_type,
     volume_mwh    |-> accept_volume,
     price_per_mwh |-> row.price,
     cost_gbp      |-> row.price * accept_volume,
     idx           |-> row.idx]

\* State of the walk over the sorted copy: the loop variables of the
\* routine and the frame it mutates.
LoopState(remaining_volume, total_cost, accepted_actions, frame) ==
    [remaining_volume |-> remaining_volume,
     total_cost       |-> total_cost,
     accepted_actions |-> accepted_actions,
     frame            |-> frame]

\* variant: the walk goes on until nothing at all remains
ExitsEarly_AtZero(remaining_volume) == remaining_volume <= 0

\* variant: a tolerance of 1 MWh
ExitsEarly_WideTolerance(remaining_volume) == remaining_volume <= 20

\* the test at the top of the loop body:  if remaining_volume <= 0.1: break
ExitsEarly(remaining_volume) == remaining_volume <= Eps

\* variant: the whole remaining volume is accepted from the row
AcceptVolume_Unbounded(row, remaining_volume) == remaining_volume

\* accept_volume = min(row['volume_mw'], remaining_volume)
AcceptVolume(row, remaining_volume) == Min(row.volume_mw, remaining_volume)

\* for idx, row in sorted.iterrows(): ...   from position k on
RECURSIVE AcceptLoop(_, _, _, _, _, _)
AcceptLoop(sorted, k, st, zone, settlement_timestamp, action_type) ==
    IF k > Len(sorted) THEN st
    ELSE IF ExitsEarly(st.remaining_volume) THEN st
    ELSE LET row == sorted[k]
             accept_volume == AcceptVolume(row, st.remaining_volume)
         IN  IF accept_volume <= 0
             THEN AcceptLoop(sorted, k + 1, st, zone, settlement_timestamp, action_type)
             ELSE AcceptLoop(sorted, k + 1,
                      LoopState(st.remaining_volume - accept_volume,
                                st.total_cost + row.price * accept_volume,
                                Append(st.accepted_actions,
                                       AcceptedAction(row, zone, settlement_timestamp,
                                                      action_type, accept_volume)),
                                SubtractAtLoc(st.frame, row.idx, accept_volume)),
                      zone, settlement_timestamp, action_type)

\* variant: the early return reports no shortfall
NothingCleared_ZeroUncleared(required_volume, frame) ==
    [cleared_volume   |-> 0,
     uncleared_volume |-> 0,
     total_cost       |-> 0,
     accepted_actions |-> <<>>,
     frame            |-> frame]

\* the early return of both routines; frame is the untouched argument
NothingCleared(required_volume, frame) ==
    [cleared_volume   |-> 0,
     uncleared_volume |-> required_volume,
     total_cost       |-> 0,
     accepted_actions |-> <<>>,
     frame            |-> frame]

\* variant: the required volume is reported as cleared
ClearingResult_ReportsRequired(required_volume, st) ==
    [cleared_volume   |-> required_volume,
     uncleared_volume |-> Max(0, st.remaining_volume),
     total_cost       |-> st.total_cost,
     accepted_actions |-> st.accepted_actions,
     frame            |-> st.frame]

\* variant: the remaining volume is added to the required volume
ClearingResult_AddsRemaining(required_volume, st) ==
    [cleared_volume   |-> required_volume + Max(0, st.remaining_volume),
     uncleared_volume |-> Max(0, st.remaining_volume),
     total_cost       |-> st.total_cost,
     accepted_actions |-> st.accepted_actions,
     frame            |-> st.frame]

\* the final return of both routines
ClearingResult(required_volume, st) ==
    [cleared_volume   |-> required_volume - Max(0, st.remaining_volume),
     uncleared_volume |-> Max(0, st.remaining_volume),
     total_cost       |-> st.total_cost,
     accepted_actions |-> st.accepted_actions,
     frame            |-> st.frame]

\* variant: a required volume of zero or less is not turned away
clear_zone_upward_NoRequiredGuard(required_volume, available_offers_arg, zone, settlement_timestamp) ==
    IF available_offers_arg = <<>>
    THEN NothingCleared(required_volume, available_offers_arg)
    ELSE ClearingResult(required_volume,
             AcceptLoop(SortByPriceAscending(available_offers_arg), 1,
                        LoopState(required_volume, 0, <<>>, available_offers_arg),
                        zone, settlement_timestamp, "offer"))

\* variant: the offers are walked from the most expensive one
clear_zone_upward_Descending(required_volume, available_offers_arg, zone, settlement_timestamp) ==
    IF available_offers_arg = <<>> \/ required_volume <= 0
    THEN NothingCleared(required_volume, available_offers_arg)
    ELSE ClearingResult(required_volume,
             AcceptLoop(SortByPriceDescending(available_offers_arg), 1,
                        LoopState(required_volume, 0, <<>>, available_offers_arg),
                        zone, settlement_timestamp, "offer"))

\* clear_zone_upward; the result also carries the argument frame as the
\* call leaves it (the routine mutates it in place).
clear_zone_upward(required_volume, available_offers_arg, zone, settlement_timestamp) ==
    IF available_offers_arg = <<>> \/ required_volume <= 0
    THEN NothingCleared(required_volume, available_offers_arg)
    ELSE ClearingResult(required_volume,
             AcceptLoop(SortByPriceAscending(available_offers_arg), 1,
                        LoopState(required_volume, 0, <<>>, available_offers_arg),
                        zone, settlement_timestamp, "offer"))

\* variant: the bids are walked from the cheapest one
clear_zone_downward_Ascending(required_volume, available_bids_arg, zone, settlement_timestamp) ==
    IF available_bids_arg = <<>> \/ required_volume <= 0
    THEN NothingCleared(required_volume, available_bids_arg)
    ELSE ClearingResult(required_volume,
             AcceptLoop(SortByPriceAscending(available_bids_arg), 1,
                        LoopState(required_volume, 0, <<>>, available_bids_arg),
                        zone, settlement_timestamp, "bid"))

\* clear_zone_downward
clear_zone_downward(required_volume, available_bids_arg, zone, settlement_timestamp) ==
    IF available_bids_arg = <<>> \/ required_volume <= 0
    THEN NothingCleared(required_volume, available_bids_arg)
    ELSE ClearingResult(required_volume,
             AcceptLoop(SortByPriceDescending(available_bids_arg), 1,
                        LoopState(required_volume, 0, <<>>, available_bids_arg),
                        zone, settlement_timestamp, "bid"))

\* ------------------------------ clear_balancing_market.clear_pay_as_bid
\* The dict appended to accepted; idx is again the label of the row.
PayAsBidAction(row, accept_vol) ==
    [unit_id |-> row.unit_id,
     pair_id |-> row.pair_id,
     volume  |-> accept_vol,
     price   |-> row.price,
     cost    |-> row.price * accept_vol,
     idx     |-> row.idx]

\* for _, row in sorted_stack.iterrows(): ...   from position k on; the
\* loop stops at remaining <= 0 and leaves the frame alone
RECURSIVE PayAsBidLoop(_, _, _)
PayAsBidLoop(sorted_stack, k, st) ==
    IF k > Len(sorted_stack) THEN st
    ELSE IF st.remaining <= 0 THEN st
    ELSE LET row == sorted_stack[k]
             accept_vol == Min(row.volume_mw, st.remaining)
         IN  IF accept_vol <= 0
             THEN PayAsBidLoop(sorted_stack, k + 1, st)
             ELSE PayAsBidLoop(sorted_stack, k + 1,
                      [remaining  |-> st.remaining - accept_vol,
                       total_cost |-> st.total_cost + row.price * accept_vol,
                       accepted   |-> Append(st.accepted, PayAsBidAction(row, accept_vol))])

\* the dict returned by clear_pay_as_bid: the early return has three keys,
\* the final return four
clear_pay_as_bid(required_volume, stack_arg, direction) ==
    IF stack_arg = <<>> \/ required_volume <= 0
    THEN [cleared_volume   |-> 0,
          total_cost       |-> 0,
          accepted_actions |-> <<>>]
    ELSE LET sorted_stack == IF direction = "up"
                             THEN SortByPriceAscending(stack_arg)
                             ELSE SortByPriceDescending(stack_arg)
             st == PayAsBidLoop(sorted_stack, 1,
                       [remaining |-> required_volume, total_cost |-> 0, accepted |-> <<>>])
         IN  [cleared_volume   |-> required_volume - Max(0, st.remaining),
              total_cost       |-> st.total_cost,
              uncleared_volume |-> Max(0, st.remaining),
              accepted_actions |-> st.accepted]

\* ------------------------------------------------------------ the inputs
Prices == {-1, 1}                  \* GBP/MWh; a price may be negative

\* The generators of the redispatch network.  A and B have a row in the
\* classification table, C has none.
Units == {"A", "B", "C"}

Boundaries == <<"SSE-SP_side", "SCOTEX_side", "SSHARN_side", "FLOWSTH_side", "SEIMP_side">>

\* the classification table: A is north of every boundary, B south of all
bmu_classification ==
    [u \in {"A", "B"} |->
        [b \in { Boundaries[k] : k \in 1..Len(Boundaries) } |->
            IF u = "A" THEN "north" ELSE "south"]]

\* variant: SCOTEX is looked at before SSE-SP
classify_unit_to_zone_ScotexFirst(unit_id, classification) ==
    IF unit_id \notin DOMAIN classification THEN "unknown"
    ELSE LET row == classification[unit_id] IN
         IF row["SCOTEX_side"] = "north" THEN "orange"
         ELSE IF row["SSE-SP_side"] = "north" THEN "red"
         ELSE IF row["SSHARN_side"] = "north" THEN "green"
         ELSE IF row["FLOWSTH_side"] = "north" THEN "blue"
         ELSE IF row["SEIMP_side"] = "north" THEN "purple"
         ELSE "yellow"

classify_unit_to_zone(unit_id, classification) ==
    IF unit_id \notin DOMAIN classification THEN "unknown"
    ELSE LET row == classification[unit_id] IN
         IF row["SSE-SP_side"] = "north" THEN "red"
         ELSE IF row["SCOTEX_side"] = "north" THEN "orange"
         ELSE IF row["SSHARN_side"] = "north" THEN "green"
         ELSE IF row["FLOWSTH_side"] = "north" THEN "blue"
         ELSE IF row["SEIMP_side"] = "north" THEN "purple"
         ELSE "yellow"

\* unit_lookup['zone'] and unit_lookup['type'] of create_unit_lookup, as
\* annotate_bids_offers maps them onto the rows
ZoneOfUnit(unit_id) == classify_unit_to_zone(unit_id, bmu_classification)
CarrierOfUnit(unit_id) == IF unit_id = "A" THEN "wind" ELSE "gas"

\* one annotated bid or offer record
Row(idx, timestamp, unit_id, pair_id, price, volume_mw) ==
    [idx          |-> idx,
     timestamp    |-> timestamp,
     unit_id      |-> unit_id,
     pair_id      |-> pair_id,
     price        |-> price,
     volume_mw    |-> volume_mw,
     zone         |-> ZoneOfUnit(unit_id),
     carrier_type |-> CarrierOfUnit(unit_id)]

\* volumes and costs in the model's units
MWh(x) == 20 * x
GBP(x) == 40 * x

\* the frames of TEST 6 and TEST 7 of IV_test_clearing_market.py, with the
\* default index labels 0, 1, 2
sample_bids ==
    << [idx |-> 0, unit_id |-> "GEN_A", price |-> 45, volume_mw |-> MWh(100),
        pair_id |-> 1, carrier_type |-> "gas", zone |-> "red"],
       [idx |-> 1, unit_id |-> "GEN_B", price |-> 55, volume_mw |-> MWh(150),
        pair_id |-> 2, carrier_type |-> "coal", zone |-> "red"],
       [idx |-> 2, unit_id |-> "GEN_C", price |-> 35, volume_mw |-> MWh(80),
        pair_id |-> 3, carrier_type |-> "wind", zone |-> "red"] >>

sample_offers ==
    << [idx |-> 0, unit_id |-> "GEN_X", price |-> 25, volume_mw |-> MWh(120),
        pair_id |-> 10, carrier_type |-> "wind", zone |-> "yellow"],
       [idx |-> 1, unit_id |-> "GEN_Y", price |-> 15, volume_mw |-> MWh(90),
        pair_id |-> 11, carrier_type |-> "gas", zone |-> "yellow"],
       [idx |-> 2, unit_id |-> "GEN_Z", price |-> 35, volume_mw |-> MWh(110),
        pair_id |-> 12, carrier_type |-> "hydro", zone |-> "yellow"] >>

\* Volumes of the rows handed directly to a clearing routine: none, below,
\* at and above the tolerance
DirectVolumes == {0, 1, Eps, MaxVol}

\* Frames handed directly to a clearing routine: up to MaxRows rows of one
\* unit, one pair per row, any price and any of the volumes above.
DirectFrames ==
    UNION {
        { [k \in 1..n |-> Row(k, 1, "A", k, pv[k][1], pv[k][2])] :
            pv \in [1..n -> Prices \X DirectVolumes] }
        : n \in 0..MaxRows }

\* Required volumes of a direct call: negative, zero, below, at and above
\* the tolerance
DirectRequired == {0 - 1, 0, 1, Eps, Eps + 1, MaxReq}

\* Records of the market-wide frames bids_df / offers_df.  A unit submits
\* one price per pair (pair 1 at price 1, pair 2 at price 2); two rows of
\* the same unit, pair and timestamp share their key.
RunRecords ==
    { [timestamp |-> 1, unit_id |-> "A", price |-> p, volume_mw |-> v] :
        p \in {1, 2}, v \in {1, 2 * MaxVol} }
    \cup { [timestamp |-> 1, unit_id |-> "B", price |-> 1, volume_mw |-> v] :
              v \in {1, 2 * MaxVol} }
    \cup { [timestamp |-> 1, unit_id |-> "C", price |-> 1, volume_mw |-> 2 * MaxVol] }
    \cup { [timestamp |-> 2, unit_id |-> "A", price |-> 1, volume_mw |-> 2 * MaxVol] }

FrameOf(recs) ==
    [k \in 1..Len(recs) |->
        Row(k, recs[k].timestamp, recs[k].unit_id, recs[k].price,
            recs[k].price, recs[k].volume_mw)]

OfferFrames == { FrameOf(r) : r \in UNION { [1..n -> RunRecords] : n \in 0..2 } }
BidFrames   ==
    { FrameOf(r) :
        r \in UNION { [1..n -> { rec \in RunRecords : rec.timestamp = 1 /\ rec.price = 1 }]
                        : n \in 0..1 } }

\* Requirement tables: rows keyed by (timestamp, zone)
ReqKeys == { <<1, "red">>, <<1, "yellow">>, <<2, "red">> }
FlexRows ==
    { [flex_up_mwh |-> f[1], flex_down_mwh |-> f[2]] :
        f \in { <<0, 0>>, <<MaxReq, 0>>, <<0, MaxReq>>,
                <<MaxReq, MaxReq>>, <<Eps, Eps>>, <<Eps + 1, 0>> } }

\* ---------------------------------------- calculate_zone_volumes_per_period
\* A dispatch series generators_t.p is a function from timestamps to
\* functions from generator names to a dispatch, counted in tenths of a MW:
\* the half-hour factor 0.5 then gives volumes in units of 0.05 MWh.
\* variant: a negative change is added to flex_down with its sign
RECURSIVE ZoneFlex_SignedDown(_, _, _, _)
ZoneFlex_SignedDown(gens, ts, wholesale_dispatch, redispatch_dispatch) ==
    IF gens = {} THEN [flex_up_mwh |-> 0, flex_down_mwh |-> 0]
    ELSE LET gen_name == CHOOSE g \in gens : TRUE
             rest == ZoneFlex_SignedDown(gens \ {gen_name}, ts, wholesale_dispatch,
                                         redispatch_dispatch)
             change == redispatch_dispatch[ts][gen_name] - wholesale_dispatch[ts][gen_name]
         IN  IF change > 0
             THEN [rest EXCEPT !.flex_up_mwh = @ + change]
             ELSE [rest EXCEPT !.flex_down_mwh = @ + change]

RECURSIVE ZoneFlex(_, _, _, _)
\* for gen_name in zone_generators: ... flex_up += change / flex_down += abs(change)
ZoneFlex(gens, ts, wholesale_dispatch, redispatch_dispatch) ==
    IF gens = {} THEN [flex_up_mwh |-> 0, flex_down_mwh |-> 0]
    ELSE LET gen_name == CHOOSE g \in gens : TRUE
             rest == ZoneFlex(gens \ {gen_name}, ts, wholesale_dispatch, redispatch_dispatch)
             change == redispatch_dispatch[ts][gen_name] - wholesale_dispatch[ts][gen_name]
         IN  IF change > 0
             THEN [rest EXCEPT !.flex_up_mwh = @ + change]
             ELSE [rest EXCEPT !.flex_down_mwh = @ + (0 - change)]

\* the generators of a zone: columns of both series classified to the zone
ZoneGenerators(zone, wholesale_dispatch, redispatch_dispatch, classification) ==
    { gen_name \in UNION { DOMAIN wholesale_dispatch[ts] : ts \in DOMAIN wholesale_dispatch } :
        /\ \A ts \in DOMAIN redispatch_dispatch : gen_name \in DOMAIN redispatch_dispatch[ts]
        /\ classify_unit_to_zone(gen_name, classification) = zone }

\* variant: a zone without a generator gets a row as well
calculate_zone_volumes_per_period_NoSkip(wholesale_dispatch, redispatch_dispatch, classification) ==
    LET zones == { zone_order[k] : k \in 1..Len(zone_order) }
    IN  [key \in (DOMAIN wholesale_dispatch) \X zones |->
            ZoneFlex(ZoneGenerators(key[2], wholesale_dispatch, redispatch_dispatch,
                                    classification),
                     key[1], wholesale_dispatch, redispatch_dispatch)]

\* one row per timestamp of the wholesale series and per zone (the seven
\* zones, 'unknown' among them) that has a generator
calculate_zone_volumes_per_period(wholesale_dispatch, redispatch_dispatch, classification) ==
    LET zones == { zone_order[k] : k \in 1..Len(zone_order) }
        keys == { key \in (DOMAIN wholesale_dispatch) \X zones :
                    ZoneGenerators(key[2], wholesale_dispatch, redispatch_dispatch,
                                   classification) # {} }
    IN  [key \in keys |->
            ZoneFlex(ZoneGenerators(key[2], wholesale_dispatch, redispatch_dispatch,
                                    classification),
                     key[1], wholesale_dispatch, redispatch_dispatch)]

\* Dispatch of one period: the wholesale series has the generators A, B, C
\* and a generator D that the redispatch network lacks; redispatch moves
\* each of A, B, C up or down by MaxReq.
WholesaleDispatch == [ts \in {1} |-> [g \in {"A", "B", "C", "D"} |-> 2 * MaxReq]]
RedispatchDispatches ==
    { [ts \in {1} |-> [g \in {"A", "B", "C"} |-> 2 * MaxReq + change[g]]] :
        change \in [{"A", "B", "C"} -> {0 - MaxReq, MaxReq}] }

\* Requirement tables handed to the run: tables of at most two rows over
\* ReqKeys, and the tables the aggregator builds from the dispatches above
ReqTables ==
    UNION { [K -> FlexRows] : K \in { S \in SUBSET ReqKeys : Cardinality(S) <= 2 } }
    \cup { calculate_zone_volumes_per_period(WholesaleDispatch, r, bmu_classification) :
              r \in RedispatchDispatches }

\* ------------------------------------------- the pre-processing of __main__
Abs(x) == IF x < 0 THEN 0 - x ELSE x

\* A network (pypsa.Network) is a record: generators and storage_units map
\* the unit names of each component to a carrier, p is generators_t.p.
\* if unit_id in generators.index ... elif unit_id in storage_units.index
get_unit_type(unit_id, network) ==
    IF unit_id \in DOMAIN network.generators THEN network.generators[unit_id]
    ELSE IF unit_id \in DOMAIN network.storage_units THEN network.storage_units[unit_id]
    ELSE "unknown"

\* set(n_redispatch.generators.index) | set(n_redispatch.storage_units.index)
NetworkUnits(network) == DOMAIN network.generators \cup DOMAIN network.storage_units

create_unit_lookup(network, classification) ==
    [zone |-> [unit_id \in NetworkUnits(network) |->
                  classify_unit_to_zone(unit_id, classification)],
     type |-> [unit_id \in NetworkUnits(network) |-> get_unit_type(unit_id, network)]]

\* Series.map(dict): a value that is no key of the dict maps to NaN
MapLookup(lookup, unit_id) ==
    IF unit_id \in DOMAIN lookup THEN lookup[unit_id] ELSE "NaN"

\* bids['zone'] = bids['unit_id'].map(unit_lookup['zone']) and the same for
\* carrier_type; the rows and their labels are kept as they are
AnnotateFrame(df, lookup) ==
    [k \in 1..Len(df) |->
        [idx          |-> df[k].idx,
         timestamp    |-> df[k].timestamp,
         unit_id      |-> df[k].unit_id,
         pair_id      |-> df[k].pair_id,
         price        |-> df[k].price,
         volume_mw    |-> df[k].volume_mw,
         zone         |-> MapLookup(lookup.zone, df[k].unit_id),
         carrier_type |-> MapLookup(lookup.type, df[k].unit_id)]]

annotate_bids_offers(bids, offers, lookup) ==
    [bids |-> AnnotateFrame(bids, lookup), offers |-> AnnotateFrame(offers, lookup)]

\* bids_df['volume_mw'] = bids_df['volume_mw'].abs()
AbsVolumes(df) == [k \in 1..Len(df) |-> [df[k] EXCEPT !.volume_mw = Abs(@)]]

\* variant: the records of every unit are kept
FilterNetworkUnits_Skipped(df, network_units) == df

\* df[df['unit_id'].isin(network_units)].copy()
FilterNetworkUnits(df, network_units) ==
    SelectSeq(df, LAMBDA r : r.unit_id \in network_units)

\* Steps 2 and 2.5 for the bids: the columns are renamed, the volumes made
\* absolute, the rows of units outside the network removed
PreprocessBids(raw, network_units) == FilterNetworkUnits(AbsVolumes(raw), network_units)

\* Steps 2 and 2.5 for the offers: the columns are renamed, the volumes cast
\* to float64, the rows of units outside the network removed
PreprocessOffers(raw, network_units) == FilterNetworkUnits(raw, network_units)

\* The rows of a classification table: a side for each of the boundaries
SideRows == [{ Boundaries[k] : k \in 1..Len(Boundaries) } -> {"north", "south"}]

\* Classification tables: any row for A, B south of every boundary, no row
\* for the other units
ClassificationTables ==
    { [u \in {"A", "B"} |-> IF u = "A" THEN row ELSE bmu_classification["B"]] :
        row \in SideRows }

\* The two networks.  The wholesale network has a generator D that the
\* redispatch network lacks; S is a storage unit.
Carriers == [u \in {"A", "B", "C", "D"} |-> IF u = "A" THEN "wind" ELSE "gas"]
Storage == [u \in {"S"} |-> "battery"]
Periods == {1, 2}

WholesaleNetwork ==
    [generators    |-> Carriers,
     storage_units |-> Storage,
     p             |-> [ts \in Periods |-> [g \in DOMAIN Carriers |-> 2 * MaxReq]]]

\* Redispatch moves A, B and C in period 1 and A in period 2: down by
\* MaxReq, not at all, or up by the tolerance
DispatchChanges ==
    [{ <<1, "A">>, <<1, "B">>, <<1, "C">>, <<2, "A">> } -> {0 - MaxReq, 0, Eps}]

RedispatchNetwork(change) ==
    [generators    |-> [u \in {"A", "B", "C"} |-> Carriers[u]],
     storage_units |-> Storage,
     p             |-> [ts \in Periods |->
                          [g \in {"A", "B", "C"} |->
                              2 * MaxReq + (IF <<ts, g>> \in DOMAIN change
                                            THEN change[<<ts, g>>] ELSE 0)]]]

\* Submitted records, columns renamed: LevelFrom is the volume, of either
\* sign; V is a unit outside both networks
RawRecords ==
    { [timestamp |-> 1, unit_id |-> u, pair_id |-> 1, price |-> 1, volume_mw |-> v] :
        u \in {"A", "C", "S", "V"}, v \in {0 - MaxVol, MaxVol} }

\* the frames read from the two csv files: one or two rows, labelled 0, 1
RawFrames ==
    UNION { { [k \in 1..n |->
                 [idx       |-> k - 1,
                  timestamp |-> recs[k].timestamp,
                  unit_id   |-> recs[k].unit_id,
                  pair_id   |-> recs[k].pair_id,
                  price     |-> recs[k].price,
                  volume_mw |-> recs[k].volume_mw]] : recs \in [1..n -> RawRecords] }
            : n \in 1..2 }

\* ------------------------------------------------------------- the state
VARIABLES
    pc,                   \* "direct" | "returned" | "period" | "zone" | "done"
    required_volume,      \* argument of a direct call of a clearing routine
    stack,                \* frame argument of a direct call (mutated by it)
    zone_volumes,         \* requirement table, keyed by <<timestamp, zone>>
    bids_df, offers_df,   \* annotated market-wide frames
    available_bids,       \* the period's mutable copies
    available_offers,
    ts_i,                 \* position in timestamps (outer loop)
    zone_i,               \* position in zone_order (inner loop)
    settlement_results,
    all_accepted_actions,
    uncleared_summary,
    call,                 \* the last call of a clearing routine
    n_wholesale,          \* the two networks read by __main__
    n_redispatch,
    classification_table, \* bmu_classification as read by __main__
    bids_raw, offers_raw, \* the submitted records as read by __main__
    unit_lookup

vars == <<pc, required_volume, stack, zone_volumes, bids_df, offers_df,
          available_bids, available_offers, ts_i, zone_i,
          settlement_results, all_accepted_actions, uncleared_summary, call, tie_order,
          n_wholesale, n_redispatch, classification_table, bids_raw, offers_raw,
          unit_lookup>>

\* the inputs and the lookup of __main__
mainVars == <<n_wholesale, n_redispatch, classification_table, bids_raw, offers_raw,
              unit_lookup>>

\* a call of a routine or of run_balancing_market_clearing outside __main__
NoMain ==
    /\ n_wholesale = << >> /\ n_redispatch = << >>
    /\ classification_table = << >>
    /\ bids_raw = <<>> /\ offers_raw = <<>>
    /\ unit_lookup = << >>


NoCall == [action_type |-> "none"]

\* what one call of a clearing routine was given and what it returned
CallRecord(action_type, required, before, result) ==
    [action_type      |-> action_type,
     required_volume  |-> required,
     before           |-> before,
     after            |-> result.frame,
     cleared_volume   |-> result.cleared_volume,
     uncleared_volume |-> result.uncleared_volume,
     total_cost       |-> result.total_cost,
     accepted_actions |-> result.accepted_actions]

\* zone_volumes.index.get_level_values('timestamp').unique(); the table is
\* built period by period, so its timestamps are in ascending order
RECURSIVE AscendingSeq(_)
AscendingSeq(S) ==
    IF S = {} THEN <<>>
    ELSE LET m == CHOOSE x \in S : \A y \in S : x <= y
         IN  <<m>> \o AscendingSeq(S \ {m})

timestamps == AscendingSeq({ key[1] : key \in DOMAIN zone_volumes })

\* two rows of one zone and period have the same price
HasPriceTie(df) ==
    \E j, k \in 1..Len(df) :
        /\ j < k
        /\ df[j].price = df[k].price
        /\ df[j].zone = df[k].zone
        /\ df[j].timestamp = df[k].timestamp

\* The orders among equal prices that are kept for the given frames: where
\* no two rows can tie, the order among equals cannot be observed and only
\* "arrival" is kept.
TieOrders(frames) ==
    IF \E k \in 1..Len(frames) : HasPriceTie(frames[k])
    THEN {"arrival", "reversed"}
    ELSE {"arrival"}

InitDirect ==
    /\ pc = "direct"
    /\ required_volume \in DirectRequired
    /\ stack \in DirectFrames
    /\ tie_order \in TieOrders(<<stack>>)
    /\ zone_volumes = << >>
    /\ bids_df = <<>> /\ offers_df = <<>>
    /\ available_bids = <<>> /\ available_offers = <<>>
    /\ ts_i = 1 /\ zone_i = 1
    /\ settlement_results = <<>>
    /\ all_accepted_actions = <<>>
    /\ uncleared_summary = <<>>
    /\ call = NoCall
    /\ NoMain

\* the calls of TEST 6 and TEST 7: required_volume=100.0 on the sample frames
InitSample ==
    /\ pc = "direct"
    /\ required_volume = MWh(100)
    /\ stack \in {sample_bids, sample_offers}
    /\ tie_order \in {"arrival", "reversed"}
    /\ zone_volumes = << >>
    /\ bids_df = <<>> /\ offers_df = <<>>
    /\ available_bids = <<>> /\ available_offers = <<>>
    /\ ts_i = 1 /\ zone_i = 1
    /\ settlement_results = <<>>
    /\ all_accepted_actions = <<>>
    /\ uncleared_summary = <<>>
    /\ call = NoCall
    /\ NoMain

InitRun ==
    /\ pc = "period"
    /\ required_volume = 0
    /\ stack = <<>>
    /\ zone_volumes \in ReqTables
    /\ bids_df \in BidFrames
    /\ offers_df \in OfferFrames
    /\ tie_order \in TieOrders(<<bids_df, offers_df>>)
    /\ available_bids = <<>> /\ available_offers = <<>>
    /\ ts_i = 1 /\ zone_i = 1
    /\ settlement_results = <<>>
    /\ all_accepted_actions = <<>>
    /\ uncleared_summary = <<>>
    /\ call = NoCall
    /\ NoMain

Init == InitDirect \/ InitSample \/ InitRun

\* ------------------------------------------ direct calls of the routines
runVars == <<zone_volumes, bids_df, offers_df, available_bids, available_offers,
             ts_i, zone_i, settlement_results, all_accepted_actions,
             uncleared_summary, tie_order, mainVars>>

CallClearZoneUpward ==
    /\ pc = "direct"
    /\ LET result == clear_zone_upward(required_volume, stack, "red", 1) IN
        /\ stack' = result.frame
        /\ call' = CallRecord("offer", required_volume, stack, result)
    /\ pc' = "returned"
    /\ UNCHANGED <<required_volume, runVars>>

CallClearZoneDownward ==
    /\ pc = "direct"
    /\ LET result == clear_zone_downward(required_volume, stack, "red", 1) IN
        /\ stack' = result.frame
        /\ call' = CallRecord("bid", required_volume, stack, result)
    /\ pc' = "returned"
    /\ UNCHANGED <<required_volume, runVars>>

\* a call of clear_pay_as_bid, which returns a dict and leaves its frame
\* argument as it was
CallClearPayAsBid ==
    /\ pc = "direct"
    /\ \E direction \in {"up", "down"} :
          call' = [action_type     |-> "pay_as_bid",
                   direction       |-> direction,
                   required_volume |-> required_volume,
                   before          |-> stack,
                   after           |-> stack,
                   result          |-> clear_pay_as_bid(required_volume, stack, direction)]
    /\ pc' = "returned"
    /\ UNCHANGED <<required_volume, stack, runVars>>

\* ------------------------------------------- run_balancing_market_clearing
zone_names(zone) ==
    CASE zone = "red"     -> "North of SSE-SP"
      [] zone = "orange"  -> "SSE-SP to SCOTEX"
      [] zone = "green"   -> "SCOTEX to SSHARN"
      [] zone = "blue"    -> "SSHARN to FLOWSTH"
      [] zone = "purple"  -> "FLOWSTH to SEIMP"
      [] zone = "yellow"  -> "South of all constraints"
      [] zone = "unknown" -> "Not classified"
      [] OTHER            -> "Unknown"

\* variant: the period's copies hold the rows of every period
RowsOfPeriod_AllPeriods(df, ts) == df

\* df[df['timestamp'] == ts].copy()
RowsOfPeriod(df, ts) == SelectSeq(df, LAMBDA r : r.timestamp = ts)

\* available[available['zone'] == zone] : a new frame, not a view
RowsOfZone(df, zone) == SelectSeq(df, LAMBDA r : r.zone = zone)

\* try: zone_volumes.loc[(ts, zone)] ... except KeyError: 0.0, 0.0
Requirement(ts, zone) ==
    IF <<ts, zone>> \in DOMAIN zone_volumes
    THEN zone_volumes[<<ts, zone>>]
    ELSE [flex_up_mwh |-> 0, flex_down_mwh |-> 0]

\* the rows selected by unit_id, pair_id and timestamp of one action
Matches(r, action, ts) ==
    /\ r.unit_id = action.unit_id
    /\ r.pair_id = action.pair_id
    /\ r.timestamp = ts

\* variant: only the first of the matching rows is dropped
DropMatched_FirstOnly(available, action, ts) ==
    LET matched == { k \in 1..Len(available) : Matches(available[k], action, ts) } IN
    IF matched = {} THEN available
    ELSE LET first == CHOOSE k \in matched : \A j \in matched : k <= j
         IN  [k \in 1..(Len(available) - 1) |->
                 IF k < first THEN available[k] ELSE available[k + 1]]

\* variant: the rows are matched by pair_id and timestamp, whatever the unit
DropMatched_AnyUnit(available, action, ts) ==
    SelectSeq(available, LAMBDA r : ~(r.pair_id = action.pair_id /\ r.timestamp = ts))

\* if not matched.empty: available = available.drop(matched.index)
DropMatched(available, action, ts) ==
    SelectSeq(available, LAMBDA r : ~Matches(r, action, ts))

\* variant: the accepted rows stay in the period's pool
RemoveAccepted_Skipped(available, actions, ts) == available

\* for action in result['accepted_actions']: ... drop ...
RECURSIVE RemoveAccepted(_, _, _)
RemoveAccepted(available, actions, ts) ==
    IF actions = <<>> THEN available
    ELSE RemoveAccepted(DropMatched(available, Head(actions), ts), Tail(actions), ts)

\* variant: a shortfall of exactly the tolerance is flagged
IsUncleared_AtTolerance(uncleared_volume) == uncleared_volume >= Eps

\* 'YES' if result['uncleared_volume'] > 0.1 else 'NO'
IsUncleared(uncleared_volume) == uncleared_volume > Eps

SettlementRow(ts, zone, direction, required, result) ==
    [timestamp            |-> ts,
     zone                 |-> zone,
     zone_name            |-> zone_names(zone),
     direction            |-> direction,
     required_volume_mwh  |-> required,
     cleared_volume_mwh   |-> result.cleared_volume,
     uncleared_volume_mwh |-> result.uncleared_volume,
     total_cost_gbp       |-> result.total_cost,
     uncleared_flag       |-> IF IsUncleared(result.uncleared_volume) THEN "YES" ELSE "NO"]

UnclearedRow(ts, zone, direction, result) ==
    [timestamp            |-> ts,
     zone                 |-> zone,
     zone_name            |-> zone_names(zone),
     direction            |-> direction,
     uncleared_volume_mwh |-> result.uncleared_volume]

\* the tail of the zone loop body (log, collect, flag) and the loop control
RecordOutcome(ts, zone, direction, required, result) ==
    /\ settlement_results' =
          Append(settlement_results, SettlementRow(ts, zone, direction, required, result))
    /\ all_accepted_actions' = all_accepted_actions \o result.accepted_actions
    /\ uncleared_summary' =
          IF IsUncleared(result.uncleared_volume)
          THEN Append(uncleared_summary, UnclearedRow(ts, zone, direction, result))
          ELSE uncleared_summary
    /\ IF zone_i < Len(zone_order)
       THEN /\ zone_i' = zone_i + 1
            /\ UNCHANGED <<pc, ts_i>>
       ELSE /\ zone_i' = 1
            /\ ts_i' = ts_i + 1
            /\ pc' = "period"

inputVars == <<required_volume, stack, zone_volumes, bids_df, offers_df, tie_order,
               mainVars>>

\* for i, ts in enumerate(timestamps): the period's mutable copies
BeginPeriod ==
    /\ pc = "period"
    /\ ts_i <= Len(timestamps)
    /\ available_bids' = RowsOfPeriod(bids_df, timestamps[ts_i])
    /\ available_offers' = RowsOfPeriod(offers_df, timestamps[ts_i])
    /\ zone_i' = 1
    /\ pc' = "zone"
    /\ UNCHANGED <<inputVars, ts_i, settlement_results, all_accepted_actions,
                   uncleared_summary, call>>

\* variant: the downward routine is called whatever the requirement
SelectsDown_Unguarded(req) == TRUE

\* variant: the upward requirement is looked at first
SelectsDown_UpFirst(req) == req.flex_down_mwh > Eps /\ ~(req.flex_up_mwh > Eps)

\* if flex_down_required > 0.1
SelectsDown(req) == req.flex_down_mwh > Eps

\* variant: an upward requirement of exactly the tolerance is cleared
SelectsUp_AtTolerance(req) == ~SelectsDown(req) /\ req.flex_up_mwh >= Eps

\* elif flex_up_required > 0.1
SelectsUp(req) == ~SelectsDown(req) /\ req.flex_up_mwh > Eps

ClearZoneDown ==
    /\ pc = "zone"
    /\ LET ts == timestamps[ts_i]
           zone == zone_order[zone_i]
           req == Requirement(ts, zone)
           zone_bids == RowsOfZone(available_bids, zone)
           result == clear_zone_downward(req.flex_down_mwh, zone_bids, zone, ts)
       IN  /\ SelectsDown(req)
           /\ available_bids' = RemoveAccepted(available_bids, result.accepted_actions, ts)
           /\ call' = CallRecord("bid", req.flex_down_mwh, zone_bids, result)
           /\ RecordOutcome(ts, zone, "down", req.flex_down_mwh, result)
    /\ UNCHANGED <<inputVars, available_offers>>

ClearZoneUp ==
    /\ pc = "zone"
    /\ LET ts == timestamps[ts_i]
           zone == zone_order[zone_i]
           req == Requirement(ts, zone)
           zone_offers == RowsOfZone(available_offers, zone)
           result == clear_zone_upward(req.flex_up_mwh, zone_offers, zone, ts)
       IN  /\ SelectsUp(req)
           /\ available_offers' = RemoveAccepted(available_offers, result.accepted_actions, ts)
           /\ call' = CallRecord("offer", req.flex_up_mwh, zone_offers, result)
           /\ RecordOutcome(ts, zone, "up", req.flex_up_mwh, result)
    /\ UNCHANGED <<inputVars, available_bids>>

NoBalancing ==
    /\ pc = "zone"
    /\ LET ts == timestamps[ts_i]
           zone == zone_order[zone_i]
           req == Requirement(ts, zone)
       IN  /\ ~SelectsDown(req) /\ ~SelectsUp(req)
           /\ RecordOutcome(ts, zone, "none", 0, NothingCleared(0, <<>>))
    /\ UNCHANGED <<inputVars, available_bids, available_offers, call>>

\* ------------------------------- the zone loop of one period, as a function
\* try: zone_volumes.loc[(ts, zone)] ... except KeyError, on a given table
RequirementIn(table, ts, zone) ==
    IF <<ts, zone>> \in DOMAIN table
    THEN table[<<ts, zone>>]
    ELSE [flex_up_mwh |-> 0, flex_down_mwh |-> 0]

\* what the loop body records of one zone-period
ZoneOutcome(direction, required, result) ==
    [direction        |-> direction,
     required_volume  |-> required,
     cleared_volume   |-> result.cleared_volume,
     uncleared_volume |-> result.uncleared_volume,
     total_cost       |-> result.total_cost,
     accepted_actions |-> result.accepted_actions]

\* the body of the zone loop: the zone's outcome and the period's pools
\* after it
ClearZone(table, ts, zone, bids, offers) ==
    LET req == RequirementIn(table, ts, zone) IN
    IF SelectsDown(req)
    THEN LET result == clear_zone_downward(req.flex_down_mwh, RowsOfZone(bids, zone),
                                           zone, ts)
         IN  [outcome |-> ZoneOutcome("down", req.flex_down_mwh, result),
              bids    |-> RemoveAccepted(bids, result.accepted_actions, ts),
              offers  |-> offers]
    ELSE IF SelectsUp(req)
    THEN LET result == clear_zone_upward(req.flex_up_mwh, RowsOfZone(offers, zone),
                                         zone, ts)
         IN  [outcome |-> ZoneOutcome("up", req.flex_up_mwh, result),
              bids    |-> bids,
              offers  |-> RemoveAccepted(offers, result.accepted_actions, ts)]
    ELSE [outcome |-> ZoneOutcome("none", 0, NothingCleared(0, <<>>)),
          bids    |-> bids,
          offers  |-> offers]

\* for zone in order: ...   from position k on; the outcome of every zone
RECURSIVE ClearZonesInOrder(_, _, _, _, _, _)
ClearZonesInOrder(order, k, table, ts, bids, offers) ==
    IF k > Len(order) THEN << >>
    ELSE LET step == ClearZone(table, ts, order[k], bids, offers)
         IN  (order[k] :> step.outcome)
                @@ ClearZonesInOrder(order, k + 1, table, ts, step.bids, step.offers)

\* one pass of the period loop over the given table and frames, with the
\* zones taken in the given order
PeriodOutcomes(order, table, ts, bids, offers) ==
    ClearZonesInOrder(order, 1, table, ts, RowsOfPeriod(bids, ts), RowsOfPeriod(offers, ts))

\* return (settlement_results, all_accepted_actions, uncleared_summary)
ReturnResults ==
    /\ pc = "period"
    /\ ts_i > Len(timestamps)
    /\ pc' = "done"
    /\ UNCHANGED <<inputVars, available_bids, available_offers, ts_i, zone_i,
                   settlement_results, all_accepted_actions, uncleared_summary, call>>

Next ==
    \/ CallClearZoneUpward
    \/ CallClearZoneDownward
    \/ CallClearPayAsBid
    \/ BeginPeriod
    \/ ClearZoneDown
    \/ ClearZoneUp
    \/ NoBalancing
    \/ ReturnResults

Spec == Init /\ [][Next]_vars

\* ------------------------------------------------- __main__, Steps 1 to 5
\* Step 1 and Step 2: the networks, the classification table and the
\* submitted records have been read.  Either the table and the redispatch
\* vary, or the submitted records do.
InitMain ==
    /\ pc = "main"
    /\ n_wholesale = WholesaleNetwork
    /\ \/ /\ classification_table \in ClassificationTables
          /\ \E change \in DispatchChanges : n_redispatch = RedispatchNetwork(change)
          /\ bids_raw = << [idx |-> 0, timestamp |-> 1, unit_id |-> "A", pair_id |-> 1,
                            price |-> 1, volume_mw |-> 0 - MaxVol] >>
          /\ offers_raw = << [idx |-> 0, timestamp |-> 1, unit_id |-> "A", pair_id |-> 1,
                              price |-> 1, volume_mw |-> MaxVol] >>
       \/ /\ classification_table = bmu_classification
          /\ n_redispatch = RedispatchNetwork(<< >>)
          /\ bids_raw \in RawFrames
          /\ offers_raw \in RawFrames
    /\ unit_lookup = << >>
    /\ required_volume = 0
    /\ stack = <<>>
    /\ tie_order = "arrival"
    /\ zone_volumes = << >>
    /\ bids_df = <<>> /\ offers_df = <<>>
    /\ available_bids = <<>> /\ available_offers = <<>>
    /\ ts_i = 1 /\ zone_i = 1
    /\ settlement_results = <<>>
    /\ all_accepted_actions = <<>>
    /\ uncleared_summary = <<>>
    /\ call = NoCall

\* what Steps 2.5 to 5 leave alone
engineVars == <<required_volume, stack, tie_order, available_bids, available_offers,
                ts_i, zone_i, settlement_results, all_accepted_actions,
                uncleared_summary, call, n_wholesale, n_redispatch,
                classification_table, bids_raw, offers_raw>>

\* Step 2.5: absolute bid volumes, then only the records of network units
FilterBidsOffers ==
    /\ pc = "main"
    /\ bids_df' = PreprocessBids(bids_raw, NetworkUnits(n_redispatch))
    /\ offers_df' = PreprocessOffers(offers_raw, NetworkUnits(n_redispatch))
    /\ pc' = "lookup"
    /\ UNCHANGED <<engineVars, unit_lookup, zone_volumes>>

\* Step 3: unit_lookup = create_unit_lookup(n_redispatch, bmu_classification)
CreateUnitLookup ==
    /\ pc = "lookup"
    /\ unit_lookup' = create_unit_lookup(n_redispatch, classification_table)
    /\ pc' = "annotate"
    /\ UNCHANGED <<engineVars, bids_df, offers_df, zone_volumes>>

\* Step 4: bids_df, offers_df = annotate_bids_offers(bids_df, offers_df, unit_lookup)
AnnotateBidsOffers ==
    /\ pc = "annotate"
    /\ LET annotated == annotate_bids_offers(bids_df, offers_df, unit_lookup) IN
        /\ bids_df' = annotated.bids
        /\ offers_df' = annotated.offers
    /\ pc' = "aggregate"
    /\ UNCHANGED <<engineVars, unit_lookup, zone_volumes>>

\* Step 5: zone_volumes = calculate_zone_volumes_per_period(n_wholesale,
\* n_redispatch, bmu_classification)
CalculateZoneVolumes ==
    /\ pc = "aggregate"
    /\ zone_volumes' =
          calculate_zone_volumes_per_period(n_wholesale.p, n_redispatch.p,
                                            classification_table)
    /\ pc' = "prepared"
    /\ UNCHANGED <<engineVars, unit_lookup, bids_df, offers_df>>

NextMain ==
    \/ FilterBidsOffers
    \/ CreateUnitLookup
    \/ AnnotateBidsOffers
    \/ CalculateZoneVolumes

SpecMain == InitMain /\ [][NextMain]_vars


\* ----------------------------------------------------------- properties
\* a call of clear_zone_upward or clear_zone_downward has been recorded
Called == call.action_type \in {"bid", "offer"}

\* a call of clear_pay_as_bid has been recorded
CalledPayAsBid == call.action_type = "pay_as_bid"

Rows(df) == { df[k] : k \in 1..Len(df) }

\* volume accepted, in a list of actions, from the row labelled idx of the
\* bid or offer frame
AcceptedFrom(actions, action_type, idx) ==
    SeqSum([k \in 1..Len(actions) |->
        IF actions[k].action_type = action_type /\ actions[k].idx = idx
        THEN actions[k].volume_mwh ELSE 0])

AcceptedTotal(actions) == SeqSum([k \in 1..Len(actions) |-> actions[k].volume_mwh])

\* C1 -- Conservation: every call of a clearing routine returns
\* cleared_volume + uncleared_volume = required volume, and so does every
\* row of the settlement results.
C1_Conservation ==
    /\ Called => call.cleared_volume + call.uncleared_volume = call.required_volume
    /\ \A k \in 1..Len(settlement_results) :
          settlement_results[k].cleared_volume_mwh
              + settlement_results[k].uncleared_volume_mwh
            = settlement_results[k].required_volume_mwh

\* a zone-period was cleared partly: its row and the call agree, with both
\* a cleared and an uncleared part; an earlier zone found no stack at all
C1_Witness ==
    /\ Called /\ call.cleared_volume > 0 /\ call.uncleared_volume > 0
    /\ \E k \in 1..Len(settlement_results) :
          /\ settlement_results[k].cleared_volume_mwh = call.cleared_volume
          /\ settlement_results[k].uncleared_volume_mwh = call.uncleared_volume
          /\ settlement_results[k].direction # "none"
    /\ \E k \in 1..Len(settlement_results) :
          /\ settlement_results[k].direction # "none"
          /\ settlement_results[k].cleared_volume_mwh = 0

\* C2 (as claimed) -- for every call, whatever the required volume, the
\* cleared volume is at most the required volume.
C2_ClearedAtMostRequired ==
    Called => call.cleared_volume <= call.required_volume

\* C2 (amended) -- for every call with a required volume >= 0 the cleared
\* volume is at most the required volume; a call with a negative required
\* volume returns cleared 0, which is above the required volume.
C2_ClearedAtMostRequiredAmended ==
    Called =>
        /\ call.required_volume >= 0 => call.cleared_volume <= call.required_volume
        /\ call.required_volume >= 0 => call.cleared_volume >= 0
        /\ call.required_volume < 0 =>
              call.cleared_volume = 0 /\ call.cleared_volume > call.required_volume

\* a call that cleared less than a positive requirement
C2_Witness ==
    /\ Called
    /\ call.required_volume > 0
    /\ call.cleared_volume > 0
    /\ call.cleared_volume < call.required_volume

\* C3 -- Price ordering of acceptance: the accepted actions of one call
\* are in non-decreasing price order for offers (upward) and in
\* non-increasing price order for bids (downward).
C3_PriceOrdering ==
    Called =>
        \A j, k \in 1..Len(call.accepted_actions) :
            j < k =>
                IF call.action_type = "offer"
                THEN call.accepted_actions[j].price_per_mwh
                        <= call.accepted_actions[k].price_per_mwh
                ELSE call.accepted_actions[j].price_per_mwh
                        >= call.accepted_actions[k].price_per_mwh

\* an upward call that accepted, at a higher price, a row that came
\* earlier in the frame than a cheaper accepted row
C3_Witness ==
    /\ Called /\ call.action_type = "offer"
    /\ \E j, k \in 1..Len(call.accepted_actions) :
          /\ j < k
          /\ call.accepted_actions[j].price_per_mwh < call.accepted_actions[k].price_per_mwh
          /\ call.accepted_actions[j].idx > call.accepted_actions[k].idx

\* the frame a list of actions of the given type was accepted from
InputFrame(action_type) == IF action_type = "bid" THEN bids_df ELSE offers_df
PeriodPool(action_type) == IF action_type = "bid" THEN available_bids ELSE available_offers

\* C4 -- Cross-zone no re-use within a settlement period: what a zone
\* accepted is no longer in the period-level stack afterwards, and over
\* the zone loop the volume accepted from any one stack entry never
\* exceeds that entry's original volume.
C4_NoCrossZoneReuse ==
    /\ \A k \in 1..Len(all_accepted_actions) :
          LET a == all_accepted_actions[k] IN
          \A r \in Rows(PeriodPool(a.action_type)) :
              ~(r.unit_id = a.unit_id /\ r.pair_id = a.pair_id
                    /\ r.timestamp = a.timestamp)
    /\ \A t \in {"bid", "offer"} :
          \A r \in Rows(InputFrame(t)) :
              AcceptedFrom(all_accepted_actions, t, r.idx) <= r.volume_mw

\* two zones of one period have both accepted offers, the first of them
\* only a part of an entry
C4_Witness ==
    \E j, k \in 1..Len(all_accepted_actions) :
        LET a == all_accepted_actions[j]
            b == all_accepted_actions[k]
        IN  /\ a.timestamp = b.timestamp
            /\ a.zone # b.zone
            /\ a.action_type = "offer" /\ b.action_type = "offer"
            /\ \E r \in Rows(offers_df) : r.idx = a.idx /\ a.volume_mwh < r.volume_mw

\* the zone-period about to be cleared, and its requirement
CurrentTs == timestamps[ts_i]
CurrentZone == zone_order[zone_i]
LastRow == settlement_results'[Len(settlement_results')]
NewActions ==
    SubSeq(all_accepted_actions', Len(all_accepted_actions) + 1,
           Len(all_accepted_actions'))

\* C5 -- Direction selection is mutually exclusive and order-sensitive:
\* a zone-period with flexDown > 0.1 is cleared downward with bids only
\* (also when flexUp > 0.1: then no offer is accepted and the offer stack
\* is unchanged); otherwise with flexUp > 0.1 it is cleared upward with
\* offers only; otherwise no action is taken.
C5_DirectionSelection ==
    [][pc = "zone" =>
        LET flex_up == IF <<CurrentTs, CurrentZone>> \in DOMAIN zone_volumes
                       THEN zone_volumes[<<CurrentTs, CurrentZone>>].flex_up_mwh ELSE 0
            flex_down == IF <<CurrentTs, CurrentZone>> \in DOMAIN zone_volumes
                         THEN zone_volumes[<<CurrentTs, CurrentZone>>].flex_down_mwh ELSE 0
        IN
        IF flex_down > Eps
        THEN /\ LastRow.direction = "down"
             /\ LastRow.required_volume_mwh = flex_down
             /\ \A k \in 1..Len(NewActions) : NewActions[k].action_type = "bid"
             /\ available_offers' = available_offers
        ELSE IF flex_up > Eps
        THEN /\ LastRow.direction = "up"
             /\ LastRow.required_volume_mwh = flex_up
             /\ \A k \in 1..Len(NewActions) : NewActions[k].action_type = "offer"
             /\ available_bids' = available_bids
        ELSE /\ LastRow.direction = "none"
             /\ LastRow.required_volume_mwh = 0
             /\ NewActions = <<>>
             /\ available_offers' = available_offers
             /\ available_bids' = available_bids
    ]_vars

\* a zone-period with both magnitudes above the tolerance and offers at
\* hand in the zone was cleared downward, accepting a bid
C5_Witness ==
    /\ Len(settlement_results) > 0
    /\ LET row == settlement_results[Len(settlement_results)] IN
        /\ <<row.timestamp, row.zone>> \in DOMAIN zone_volumes
        /\ zone_volumes[<<row.timestamp, row.zone>>].flex_up_mwh > Eps
        /\ zone_volumes[<<row.timestamp, row.zone>>].flex_down_mwh > Eps
        /\ row.direction = "down"
        /\ row.cleared_volume_mwh > 0
        /\ \E r \in Rows(available_offers) : r.zone = row.zone /\ r.volume_mw > 0

\* the (timestamp, zone, direction, uncleared volume) of the rows of a list
ShortfallKey(row) ==
    <<row.timestamp, row.zone, row.direction, row.uncleared_volume_mwh>>

\* C6 -- Shortfall surfacing: the uncleared summary has a row for a
\* (period, zone) exactly when that zone-period's uncleared volume is above
\* 0.1 MWh, and exactly those zone-periods carry uncleared_flag = YES.
C6_ShortfallSurfacing ==
    /\ \A k \in 1..Len(settlement_results) :
          settlement_results[k].uncleared_flag =
              IF settlement_results[k].uncleared_volume_mwh > Eps THEN "YES" ELSE "NO"
    /\ [k \in 1..Len(uncleared_summary) |-> ShortfallKey(uncleared_summary[k])]
         = [k \in 1..Len(SelectSeq(settlement_results,
                                   LAMBDA row : row.uncleared_volume_mwh > Eps)) |->
               ShortfallKey(SelectSeq(settlement_results,
                                      LAMBDA row : row.uncleared_volume_mwh > Eps)[k])]

\* one zone-period is short by more than the tolerance and is listed, a
\* cleared one is short by exactly the tolerance and is not
C6_Witness ==
    /\ Len(uncleared_summary) = 1
    /\ \E k \in 1..Len(settlement_results) :
          /\ settlement_results[k].uncleared_volume_mwh = Eps
          /\ settlement_results[k].direction # "none"
          /\ settlement_results[k].uncleared_flag = "NO"
    /\ \E k \in 1..Len(settlement_results) :
          /\ settlement_results[k].uncleared_volume_mwh > Eps
          /\ settlement_results[k].uncleared_flag = "YES"

\* the periods of the requirement table
TablePeriods == { key[1] : key \in DOMAIN zone_volumes }

C9_StackMonotonicity ==
    Called => AcceptedTotal(call.accepted_actions) <= TotalVolume(call.before)

\* a call that needed more than the stack held and took all of it
C9_Witness ==
    /\ Called
    /\ Len(call.before) >= 2
    /\ TotalVolume(call.before) > 0
    /\ call.required_volume > TotalVolume(call.before)
    /\ AcceptedTotal(call.accepted_actions) = TotalVolume(call.before)

\* what scenario C states of a call: everything in the stack was taken
ShortfallOutcome ==
    /\ call.cleared_volume = TotalVolume(call.before)
    /\ call.uncleared_volume = call.required_volume - TotalVolume(call.before)
    /\ \A k \in 1..Len(call.before) :
          /\ AcceptedFrom(call.accepted_actions, call.action_type, call.before[k].idx)
                = call.before[k].volume_mw
          /\ call.after[k].volume_mw = 0

\* C10 (as claimed) -- Shortfall: when the stack's total volume is less
\* than the required volume, the call returns cleared = total stack volume
\* and uncleared = required - total, every entry has been accepted in full
\* and the stack is left with zero volume in every entry.
C10_Shortfall ==
    (Called /\ TotalVolume(call.before) < call.required_volume) => ShortfallOutcome

\* C10 (amended) -- the same, when the stack's total volume is short of
\* the required volume by more than the 0.1 MWh tolerance.
C10_ShortfallAmended ==
    (Called /\ call.required_volume - TotalVolume(call.before) > Eps) => ShortfallOutcome

\* a stack of two entries with volume, short by more than the tolerance,
\* was exhausted
C10_Witness ==
    /\ Called
    /\ call.required_volume - TotalVolume(call.before) > Eps
    /\ \E j, k \in 1..Len(call.before) :
          j # k /\ call.before[j].volume_mw > 0 /\ call.before[k].volume_mw > 0
    /\ call.cleared_volume = TotalVolume(call.before)
    /\ call.uncleared_volume > Eps

\* the entry of a frame that carries the index label idx
RowAt(df, idx) == CHOOSE r \in Rows(df) : r.idx = idx

\* who was accepted, at what price and for how much, in acceptance order
Accepted(actions) ==
    [k \in 1..Len(actions) |->
        <<actions[k].unit_id, actions[k].price_per_mwh, actions[k].volume_mwh>>]

\* every accepted slice is min(volume of its entry, what was still required
\* when the walk reached the entry)
TakesMinOfEntryAndRemaining ==
    \A k \in 1..Len(call.accepted_actions) :
        call.accepted_actions[k].volume_mwh =
            Min(RowAt(call.before, call.accepted_actions[k].idx).volume_mw,
                call.required_volume
                  - AcceptedTotal(SubSeq(call.accepted_actions, 1, k - 1)))

\* C11 -- Upward fill: an upward call accepts offers cheapest first, each
\* for min(entry volume, remaining); every accepted offer but the last is
\* taken in full.  With the offers (X, 25, 120), (Y, 15, 90), (Z, 35, 110)
\* and 100 MWh required it accepts 90 from Y at 15, then 10 from X at 25 and
\* nothing from Z: cleared 100, uncleared 0, cost 800 GBP.
C11_UpwardFill ==
    (Called /\ call.action_type = "offer") =>
        /\ TakesMinOfEntryAndRemaining
        /\ \A j, k \in 1..Len(call.accepted_actions) :
              j < k =>
                /\ call.accepted_actions[j].price_per_mwh
                      <= call.accepted_actions[k].price_per_mwh
                /\ call.accepted_actions[j].volume_mwh
                      = RowAt(call.before, call.accepted_actions[j].idx).volume_mw
        /\ (call.before = sample_offers /\ call.required_volume = MWh(100)) =>
              /\ Accepted(call.accepted_actions)
                    = << <<"GEN_Y", 15, MWh(90)>>, <<"GEN_X", 25, MWh(10)>> >>
              /\ call.cleared_volume = MWh(100)
              /\ call.uncleared_volume = 0
              /\ call.total_cost = GBP(800)

\* the upward call of TEST 7 has returned, with two accepted offers
C11_Witness ==
    /\ Called /\ call.action_type = "offer"
    /\ call.before = sample_offers
    /\ call.required_volume = MWh(100)
    /\ Len(call.accepted_actions) = 2
    /\ RowAt(call.after, 0).volume_mw = MWh(110)

\* the bid at position k is the single highest-priced one and covers the
\* required volume
CoveringHighestBid(k) ==
    /\ \A j \in 1..Len(call.before) :
          j # k => call.before[j].price < call.before[k].price
    /\ call.before[k].volume_mw >= call.required_volume

\* the bid at position k is accepted for the required volume, and no other
OnlyAccepted(k) ==
    /\ Len(call.accepted_actions) = 1
    /\ call.accepted_actions[1].idx = call.before[k].idx
    /\ call.accepted_actions[1].volume_mwh = call.required_volume

\* what scenario B states of the call of TEST 6
ScenarioB ==
    (call.before = sample_bids /\ call.required_volume = MWh(100)) =>
        /\ Accepted(call.accepted_actions) = << <<"GEN_B", 55, MWh(100)>> >>
        /\ call.cleared_volume = MWh(100)
        /\ call.uncleared_volume = 0
        /\ call.total_cost = GBP(2750)

\* C12 (as claimed) -- Downward fill: a downward call accepts bids most
\* expensive first, each for min(entry volume, remaining), so that a single
\* highest-priced bid that covers a positive required volume is the only
\* one accepted.  With the bids (A, 45, 100), (B, 55, 150), (C, 35, 80) and
\* 100 MWh required it accepts 100 from B at 55 only: cleared 100,
\* uncleared 0, cost 2750 GBP.
C12_DownwardFill ==
    (Called /\ call.action_type = "bid" /\ call.required_volume > 0) =>
        /\ TakesMinOfEntryAndRemaining
        /\ \A k \in 1..Len(call.before) : CoveringHighestBid(k) => OnlyAccepted(k)
        /\ ScenarioB

\* C12 (amended) -- the same for a required volume above the 0.1 MWh
\* tolerance; for a required volume within the tolerance the walk stops at
\* the first bid and nothing is accepted, not even a covering bid.
C12_DownwardFillAmended ==
    (Called /\ call.action_type = "bid" /\ call.required_volume > 0) =>
        /\ TakesMinOfEntryAndRemaining
        /\ \A j, k \in 1..Len(call.accepted_actions) :
              j < k => call.accepted_actions[j].price_per_mwh
                          >= call.accepted_actions[k].price_per_mwh
        /\ \A k \in 1..Len(call.before) :
              CoveringHighestBid(k) =>
                  IF call.required_volume > Eps
                  THEN OnlyAccepted(k)
                  ELSE call.accepted_actions = <<>>
        /\ ScenarioB

\* the downward call of TEST 6 has returned, with one accepted bid that
\* was taken in part
C12_Witness ==
    /\ Called /\ call.action_type = "bid"
    /\ call.before = sample_bids
    /\ call.required_volume = MWh(100)
    /\ Len(call.accepted_actions) = 1
    /\ RowAt(call.after, 1).volume_mw = MWh(50)

\* C13 -- No requirement: a zone-period that has no row in the requirement
\* table, or whose flexUp and flexDown are both at most 0.1, gets a
\* settlement row with direction none and required = cleared = uncleared =
\* cost = 0; no action is accepted, no uncleared row is written and both
\* stacks stay as they are.
C13_NoRequirement ==
    [][(/\ pc = "zone"
        /\ \/ <<CurrentTs, CurrentZone>> \notin DOMAIN zone_volumes
           \/ /\ zone_volumes[<<CurrentTs, CurrentZone>>].flex_up_mwh <= Eps
              /\ zone_volumes[<<CurrentTs, CurrentZone>>].flex_down_mwh <= Eps)
       =>
        /\ Len(settlement_results') = Len(settlement_results) + 1
        /\ LastRow.timestamp = CurrentTs
        /\ LastRow.zone = CurrentZone
        /\ LastRow.direction = "none"
        /\ LastRow.required_volume_mwh = 0
        /\ LastRow.cleared_volume_mwh = 0
        /\ LastRow.uncleared_volume_mwh = 0
        /\ LastRow.total_cost_gbp = 0
        /\ all_accepted_actions' = all_accepted_actions
        /\ uncleared_summary' = uncleared_summary
        /\ available_bids' = available_bids
        /\ available_offers' = available_offers
    ]_vars

\* the last zone-period has a requirement row with both magnitudes at the
\* tolerance and offers and bids at hand, and was settled with direction none
C13_Witness ==
    /\ Len(settlement_results) > 0
    /\ LET row == settlement_results[Len(settlement_results)] IN
        /\ <<row.timestamp, row.zone>> \in DOMAIN zone_volumes
        /\ zone_volumes[<<row.timestamp, row.zone>>].flex_up_mwh = Eps
        /\ zone_volumes[<<row.timestamp, row.zone>>].flex_down_mwh = Eps
        /\ row.direction = "none"
        /\ \E r \in Rows(available_offers) : r.zone = row.zone /\ r.volume_mw > 0
        /\ \E r \in Rows(available_bids) : r.zone = row.zone /\ r.volume_mw > 0

\* C14 -- No-op: a call with a required volume of zero or less, or with an
\* empty stack, clears 0, accepts nothing and leaves the stack as it was.
C14_NoOp ==
    (Called /\ (call.required_volume <= 0 \/ call.before = <<>>)) =>
        /\ call.cleared_volume = 0
        /\ call.accepted_actions = <<>>
        /\ call.after = call.before

\* a call with a negative required volume on a stack that holds volume
C14_Witness ==
    /\ Called
    /\ call.required_volume < 0
    /\ TotalVolume(call.before) > 0
    /\ call.after = call.before

\* the dict a call returned
Returned ==
    IF CalledPayAsBid THEN call.result
    ELSE [cleared_volume   |-> call.cleared_volume,
          uncleared_volume |-> call.uncleared_volume,
          total_cost       |-> call.total_cost,
          accepted_actions |-> call.accepted_actions]

\* C15 -- Failure semantics: a call of clear_zone_upward,
\* clear_zone_downward or clear_pay_as_bid with an empty stack or a required
\* volume of zero or less returns a fully populated result with cleared 0,
\* uncleared = the required volume as given, cost 0 and no actions.
C15_FailureSemantics ==
    ((Called \/ CalledPayAsBid) /\ (call.before = <<>> \/ call.required_volume <= 0)) =>
        /\ {"cleared_volume", "uncleared_volume", "total_cost", "accepted_actions"}
              \subseteq DOMAIN Returned
        /\ Returned.cleared_volume = 0
        /\ Returned.uncleared_volume = call.required_volume
        /\ Returned.total_cost = 0
        /\ Returned.accepted_actions = <<>>

\* the zones, and what the run has recorded of one zone-period
Zones == { zone_order[k] : k \in 1..Len(zone_order) }

RecordedOutcome(ts, zone) ==
    LET row == CHOOSE r \in Rows(settlement_results) : r.timestamp = ts /\ r.zone = zone
    IN  [direction        |-> row.direction,
         required_volume  |-> row.required_volume_mwh,
         cleared_volume   |-> row.cleared_volume_mwh,
         uncleared_volume |-> row.uncleared_volume_mwh,
         total_cost       |-> row.total_cost_gbp,
         accepted_actions |->
             SelectSeq(all_accepted_actions,
                       LAMBDA a : a.timestamp = ts /\ a.zone = zone)]

\* orders of the seven zones: two neighbours exchanged, the reverse order
\* and the order rotated by one
Swap(order, i, j) ==
    [k \in 1..Len(order) |->
        IF k = i THEN order[j] ELSE IF k = j THEN order[i] ELSE order[k]]

ZoneOrders ==
    { Swap(zone_order, i, i + 1) : i \in 1..(Len(zone_order) - 1) }
    \cup { Reverse(zone_order), Tail(zone_order) \o <<Head(zone_order)>> }

\* C16 -- Zone order has no allocative effect: the zone loop of a period
\* taken in another order of the zones gives every zone the required,
\* cleared and uncleared volume, cost and accepted actions that the run
\* recorded for it.
C16_ZoneOrderNoEffect ==
    pc = "done" =>
        \A ts \in TablePeriods :
            \A order \in ZoneOrders :
                PeriodOutcomes(order, zone_volumes, ts, bids_df, offers_df)
                    = [zone \in Zones |-> RecordedOutcome(ts, zone)]

\* the run has returned and three zones of one period have accepted volume
C16_Witness ==
    /\ pc = "done"
    /\ \E ts \in TablePeriods :
          \A zone \in {"red", "yellow", "unknown"} :
              RecordedOutcome(ts, zone).cleared_volume > 0

\* the rows of one period, relabelled 1, 2, ... : what the frame would be
\* if no other period had any entry
EntriesOf(df, ts) ==
    LET rows == SelectSeq(df, LAMBDA r : r.timestamp = ts)
    IN  [k \in 1..Len(rows) |-> [rows[k] EXCEPT !.idx = k]]

\* the rows of the requirement table of one period
RequirementsOf(ts) ==
    [key \in { k \in DOMAIN zone_volumes : k[1] = ts } |-> zone_volumes[key]]

\* an outcome without the index labels of its actions
Unlabelled(outcome) ==
    [outcome EXCEPT !.accepted_actions =
        [k \in 1..Len(@) |-> [@[k] EXCEPT !.idx = 0]]]

\* C17 -- Period independence: what the run records of a period is what
\* the zone loop gives on that period's requirements and that period's
\* bids and offers alone, and every period starts from the full volumes of
\* its entries, whatever other periods consumed.
C17_PeriodIndependence ==
    /\ (pc = "zone" /\ zone_i = 1) =>
          /\ available_bids = SelectSeq(bids_df, LAMBDA r : r.timestamp = CurrentTs)
          /\ available_offers = SelectSeq(offers_df, LAMBDA r : r.timestamp = CurrentTs)
    /\ pc = "done" =>
          \A ts \in TablePeriods :
              LET alone == PeriodOutcomes(zone_order, RequirementsOf(ts), ts,
                                          EntriesOf(bids_df, ts), EntriesOf(offers_df, ts))
              IN  \A zone \in Zones :
                      Unlabelled(RecordedOutcome(ts, zone)) = Unlabelled(alone[zone])

\* the run has returned; the same unit and pair was accepted in two periods
C17_Witness ==
    /\ pc = "done"
    /\ \E j, k \in 1..Len(all_accepted_actions) :
          /\ all_accepted_actions[j].timestamp # all_accepted_actions[k].timestamp
          /\ all_accepted_actions[j].unit_id = all_accepted_actions[k].unit_id
          /\ all_accepted_actions[j].pair_id = all_accepted_actions[k].pair_id

\* where in a frame the entry labelled idx stands
PositionOf(df, idx) == CHOOSE k \in 1..Len(df) : df[k].idx = idx

\* C18 -- Tie-breaking: entries of equal price are accepted in the order in
\* which they stand in the stack handed to the call, in both directions.
C18_TieBreaking ==
    Called =>
        \A j, k \in 1..Len(call.accepted_actions) :
            (/\ j < k
             /\ call.accepted_actions[j].price_per_mwh
                   = call.accepted_actions[k].price_per_mwh)
            => PositionOf(call.before, call.accepted_actions[j].idx)
                 < PositionOf(call.before, call.accepted_actions[k].idx)

\* C19 -- Pay-as-bid cost: every accepted action costs its own entry's
\* price x the accepted volume x 0.5 (in GBP and MWh; negative for a
\* negative price), and the total cost of a call, and of a settlement row,
\* is the sum of the costs of its actions.
C19_PayAsBidCost ==
    /\ Called =>
          /\ \A k \in 1..Len(call.accepted_actions) :
                LET a == call.accepted_actions[k] IN
                /\ a.price_per_mwh = RowAt(call.before, a.idx).price
                /\ 2 * MWh(1) * a.cost_gbp = GBP(1) * a.price_per_mwh * a.volume_mwh
                /\ a.price_per_mwh < 0 => a.cost_gbp < 0
          /\ call.total_cost =
                SeqSum([k \in 1..Len(call.accepted_actions) |->
                           call.accepted_actions[k].cost_gbp])
    /\ CalledPayAsBid =>
          /\ \A k \in 1..Len(call.result.accepted_actions) :
                LET a == call.result.accepted_actions[k] IN
                /\ a.price = RowAt(call.before, a.idx).price
                /\ 2 * MWh(1) * a.cost = GBP(1) * a.price * a.volume
                /\ a.price < 0 => a.cost < 0
          /\ call.result.total_cost =
                SeqSum([k \in 1..Len(call.result.accepted_actions) |->
                           call.result.accepted_actions[k].cost])
    /\ \A r \in Rows(settlement_results) :
          r.total_cost_gbp =
              SeqSum([k \in 1..Len(all_accepted_actions) |->
                  IF /\ all_accepted_actions[k].timestamp = r.timestamp
                     /\ all_accepted_actions[k].zone = r.zone
                  THEN all_accepted_actions[k].cost_gbp ELSE 0])

\* a call accepted one entry at a negative price and a part of an entry at
\* a positive price
C19_Witness ==
    /\ Called
    /\ \E j, k \in 1..Len(call.accepted_actions) :
          /\ call.accepted_actions[j].cost_gbp < 0
          /\ call.accepted_actions[k].cost_gbp > 0
          /\ call.accepted_actions[k].volume_mwh
                < RowAt(call.before, call.accepted_actions[k].idx).volume_mw

\* C20 -- Unclassifiable participants never reach the clearing: no entry of
\* a participant without a row in the classification table is accepted, no
\* zone-period of zone unknown is settled with a requirement other than
\* zero, and no action is accepted in zone unknown.
C20_UnknownNeverCleared ==
    /\ \A k \in 1..Len(all_accepted_actions) :
          /\ all_accepted_actions[k].unit_id \in DOMAIN bmu_classification
          /\ all_accepted_actions[k].zone # "unknown"
    /\ \A r \in Rows(settlement_results) :
          r.zone = "unknown" => r.required_volume_mwh = 0

\* ------------------------------------------------ the steps of __main__
\* Step 5 of __main__ has built the requirement table
Aggregated == pc = "prepared"

\* C21 -- Requirement Aggregator excludes unknown: the table the aggregator
\* returns has no row whose zone is 'unknown'.
C21_AggregatorExcludesUnknown ==
    Aggregated => \A key \in DOMAIN zone_volumes : key[2] # "unknown"

\* the generators that are columns of both dispatch series and that the
\* classifier puts into the zone
Contributors(zone) ==
    { g \in UNION { DOMAIN n_wholesale.p[ts] \cap DOMAIN n_redispatch.p[ts] :
                      ts \in DOMAIN n_wholesale.p } :
        classify_unit_to_zone(g, classification_table) = zone }

\* delta = (after - before) * 0.5, in units of 0.05 MWh for a dispatch in
\* tenths of a MW
Delta(ts, g) == n_redispatch.p[ts][g] - n_wholesale.p[ts][g]

RECURSIVE SumPositiveDeltas(_, _)
SumPositiveDeltas(gens, ts) ==
    IF gens = {} THEN 0
    ELSE LET g == CHOOSE x \in gens : TRUE
         IN  (IF Delta(ts, g) > 0 THEN Delta(ts, g) ELSE 0)
                + SumPositiveDeltas(gens \ {g}, ts)

RECURSIVE SumNegativeDeltas(_, _)
SumNegativeDeltas(gens, ts) ==
    IF gens = {} THEN 0
    ELSE LET g == CHOOSE x \in gens : TRUE
         IN  (IF Delta(ts, g) < 0 THEN Abs(Delta(ts, g)) ELSE 0)
                + SumNegativeDeltas(gens \ {g}, ts)

\* C22 -- Requirement Aggregator sums: for every period of the before
\* snapshot and every zone, flexUp is the sum of the positive deltas and
\* flexDown the sum of the absolute values of the negative deltas of the
\* participants present in both snapshots and classified into the zone (a
\* pair without a row counting as zero); both are non-negative.
C22_AggregatorSums ==
    Aggregated =>
        \A ts \in DOMAIN n_wholesale.p, zone \in Zones :
            LET row == RequirementIn(zone_volumes, ts, zone) IN
            /\ row.flex_up_mwh = SumPositiveDeltas(Contributors(zone), ts)
            /\ row.flex_down_mwh = SumNegativeDeltas(Contributors(zone), ts)
            /\ row.flex_up_mwh >= 0
            /\ row.flex_down_mwh >= 0

\* a zone with two participants moving in opposite directions in a period
C22_Witness ==
    /\ Aggregated
    /\ \E key \in DOMAIN zone_volumes :
          /\ zone_volumes[key].flex_up_mwh > 0
          /\ zone_volumes[key].flex_down_mwh > 0
          /\ Cardinality(Contributors(key[2])) >= 2

\* C23 -- Requirement Aggregator output rows: the table has a row for a
\* (period, zone) pair exactly when some participant of the zone has a
\* non-zero delta in the period.
C23_OutputRows ==
    Aggregated =>
        \A ts \in DOMAIN n_wholesale.p, zone \in Zones :
            <<ts, zone>> \in DOMAIN zone_volumes
                <=> \E g \in Contributors(zone) : Delta(ts, g) # 0

\* C23, amended -- the table has a row for a (period, zone) pair exactly
\* when the period is one of the before snapshot and the zone has a
\* participant present in both snapshots, whatever its delta; a zone with no
\* such participant has no row.
C23_OutputRowsAmended ==
    Aggregated =>
        /\ \A key \in DOMAIN zone_volumes :
              key[1] \in DOMAIN n_wholesale.p /\ key[2] \in Zones
        /\ \A ts \in DOMAIN n_wholesale.p, zone \in Zones :
              <<ts, zone>> \in DOMAIN zone_volumes <=> Contributors(zone) # {}

\* a row of a zone whose participants all have a zero delta, next to a zone
\* that has no participant and no row
C23_Witness ==
    /\ Aggregated
    /\ \E key \in DOMAIN zone_volumes :
          /\ \A g \in Contributors(key[2]) : Delta(key[1], g) = 0
          /\ zone_volumes[key] = [flex_up_mwh |-> 0, flex_down_mwh |-> 0]
    /\ \E zone \in Zones :
          Contributors(zone) = {} /\ <<1, zone>> \notin DOMAIN zone_volumes

\* Step 3 of __main__ has built unit_lookup
LookedUp == pc \in {"annotate", "aggregate", "prepared"}

\* the zone named after each boundary, in the order of the scan
BoundaryZones == <<"red", "orange", "green", "blue", "purple">>

\* the boundaries, in the order of the scan, north of which the unit lies
NorthOf(unit_id) ==
    { k \in 1..Len(Boundaries) : classification_table[unit_id][Boundaries[k]] = "north" }

\* C24 -- Zone Classifier: classify_unit_to_zone gives every unit one of the
\* seven zones: 'unknown' when the unit has no row in the classification
\* table, otherwise the zone of the first of SSE-SP, SCOTEX, SSHARN, FLOWSTH,
\* SEIMP the unit is north of, and 'yellow' when it is north of none.
C24_ZoneClassifier ==
    LookedUp =>
        \A unit_id \in DOMAIN unit_lookup.zone :
            LET zone == unit_lookup.zone[unit_id] IN
            /\ zone \in Zones
            /\ IF unit_id \notin DOMAIN classification_table THEN zone = "unknown"
               ELSE IF NorthOf(unit_id) = {} THEN zone = "yellow"
               ELSE \E k \in NorthOf(unit_id) :
                      /\ \A j \in NorthOf(unit_id) : k <= j
                      /\ zone = BoundaryZones[k]

\* a unit south of the first boundary and north of two later ones, a unit
\* north of none and a unit without a row have all been classified
C24_Witness ==
    /\ LookedUp
    /\ \E unit_id \in DOMAIN unit_lookup.zone \cap DOMAIN classification_table :
          /\ Cardinality(NorthOf(unit_id)) >= 2
          /\ 1 \notin NorthOf(unit_id)
    /\ \E unit_id \in DOMAIN unit_lookup.zone : unit_lookup.zone[unit_id] = "yellow"
    /\ \E unit_id \in DOMAIN unit_lookup.zone : unit_lookup.zone[unit_id] = "unknown"

\* Step 4 of __main__ has annotated the frames handed to the engine
Annotated == pc \in {"aggregate", "prepared"}

\* C25 -- Participant Annotator volume normalisation: every bid record and
\* every offer record handed to the engine has a non-negative volume.
C25_VolumeNormalisation ==
    Annotated =>
        /\ \A k \in 1..Len(bids_df) : bids_df[k].volume_mw >= 0
        /\ \A k \in 1..Len(offers_df) : offers_df[k].volume_mw >= 0

\* the labels of the submitted records whose unit is a key of the lookup
Surviving(raw) ==
    { raw[k].idx : k \in { j \in 1..Len(raw) : raw[j].unit_id \in DOMAIN unit_lookup.zone } }

\* the row has the zone and the carrier type the lookup gives for its unit
CarriesLookup(r) ==
    /\ r.unit_id \in DOMAIN unit_lookup.zone
    /\ r.zone = unit_lookup.zone[r.unit_id]
    /\ r.carrier_type = unit_lookup.type[r.unit_id]

\* C26 -- Participant Annotator drop rule: the annotated bids and offers are
\* the submitted records whose unit is a key of the lookup, each with the
\* zone and the carrier type the lookup gives for its unit; a record of a
\* unit outside the lookup is not among them.
C26_DropRule ==
    Annotated =>
        /\ \A k \in 1..Len(bids_df) : CarriesLookup(bids_df[k])
        /\ \A k \in 1..Len(offers_df) : CarriesLookup(offers_df[k])
        /\ { bids_df[k].idx : k \in 1..Len(bids_df) } = Surviving(bids_raw)
        /\ { offers_df[k].idx : k \in 1..Len(offers_df) } = Surviving(offers_raw)
        /\ Len(bids_df) = Cardinality(Surviving(bids_raw))
        /\ Len(offers_df) = Cardinality(Surviving(offers_raw))

\* a record of a unit outside the lookup was submitted next to one of a
\* unit the lookup knows
C26_Witness ==
    /\ Annotated
    /\ \E j, k \in 1..Len(offers_raw) :
          /\ offers_raw[j].unit_id \notin DOMAIN unit_lookup.zone
          /\ offers_raw[k].unit_id \in DOMAIN unit_lookup.zone
    /\ Len(offers_df) = 1
    /\ \E k \in 1..Len(bids_raw) : bids_raw[k].unit_id \notin DOMAIN unit_lookup.zone

\* the volume still required when the k-th accepted action of the call was
\* taken
RemainingBefore(k) ==
    call.required_volume
        - SeqSum([j \in 1..(k - 1) |-> call.accepted_actions[j].volume_mwh])

\* C27 -- Early-exit tolerance: a call accepts an entry only while the
\* remaining volume is above 0.1 MWh, and it does not stop before that: a
\* call that returns an uncleared volume above 0.1 MWh has walked the whole
\* stack, accepted every entry in full and left no positive volume in it.
C27_EarlyExitTolerance ==
    Called =>
        /\ \A k \in 1..Len(call.accepted_actions) : RemainingBefore(k) > Eps
        /\ call.uncleared_volume > Eps =>
              \A k \in 1..Len(call.before) :
                  /\ call.after[k].volume_mw <= 0
                  /\ AcceptedFrom(call.accepted_actions, call.action_type,
                                  call.before[k].idx) = call.before[k].volume_mw

\* a call that accepted two entries and still returned an uncleared volume
\* above the tolerance
C27_Witness ==
    /\ Called
    /\ call.uncleared_volume > Eps
    /\ Len(call.accepted_actions) >= 2
    /\ \A k \in 1..Len(call.after) : call.after[k].volume_mw = 0

\* run_balancing_market_clearing is running or has returned
InRun == pc \in {"period", "zone", "done"}

\* C28 -- Caller guard: run_balancing_market_clearing calls a clearing
\* routine only with a required volume above 0.1 MWh, never with one <= 0,
\* and in every row of the settlement results required, cleared and
\* uncleared are non-negative and cleared <= required.
C28_CallerGuard ==
    InRun =>
        /\ Called => call.required_volume > Eps
        /\ \A k \in 1..Len(settlement_results) :
              LET row == settlement_results[k] IN
              /\ row.required_volume_mwh >= 0
              /\ row.cleared_volume_mwh >= 0
              /\ row.uncleared_volume_mwh >= 0
              /\ row.cleared_volume_mwh <= row.required_volume_mwh
              /\ row.direction # "none" => row.required_volume_mwh > Eps

\* the run has cleared one zone in part and has passed a zone whose
\* requirement is within the tolerance without a call
C28_Witness ==
    /\ InRun
    /\ Called
    /\ \E k \in 1..Len(settlement_results) :
          /\ settlement_results[k].direction # "none"
          /\ settlement_results[k].cleared_volume_mwh > 0
          /\ settlement_results[k].uncleared_volume_mwh > 0
    /\ \E k \in 1..Len(settlement_results) :
          /\ settlement_results[k].direction = "none"
          /\ Requirement(settlement_results[k].timestamp,
                         settlement_results[k].zone).flex_up_mwh = Eps

\* the rows of the accepted-actions ledger of one zone-period
LedgerVolume(ts, zone) ==
    SeqSum([k \in 1..Len(all_accepted_actions) |->
        IF all_accepted_actions[k].timestamp = ts /\ all_accepted_actions[k].zone = zone
        THEN all_accepted_actions[k].volume_mwh ELSE 0])

\* C29 -- Cleared volume equals the ledger: the cleared volume a call
\* returns is the sum of the volumes of the accepted actions it returns,
\* each of them strictly positive; and the cleared volume of every row of
\* the settlement results is the sum of the volumes of the zone-period's
\* rows in the accepted-actions ledger.
C29_ClearedEqualsLedger ==
    /\ Called =>
          /\ call.cleared_volume = AcceptedTotal(call.accepted_actions)
          /\ \A k \in 1..Len(call.accepted_actions) :
                call.accepted_actions[k].volume_mwh > 0
    /\ \A k \in 1..Len(settlement_results) :
          settlement_results[k].cleared_volume_mwh
              = LedgerVolume(settlement_results[k].timestamp, settlement_results[k].zone)
    /\ \A k \in 1..Len(all_accepted_actions) : all_accepted_actions[k].volume_mwh > 0

\* the ledger holds the actions of two zone-periods, one of them with two
\* actions
C29_Witness ==
    /\ Called
    /\ Len(call.accepted_actions) >= 2
    /\ Len(all_accepted_actions) > Len(call.accepted_actions)
    /\ \E k \in 1..Len(settlement_results) :
          /\ settlement_results[k].cleared_volume_mwh > 0
          /\ settlement_results[k].cleared_volume_mwh < AcceptedTotal(all_accepted_actions)

\* the row of a period's pool has the unit, pair and timestamp of an action
\* the zone just cleared has accepted from that pool
KeyAccepted(r, action_type) ==
    \E k \in 1..Len(NewActions) :
        /\ NewActions[k].action_type = action_type
        /\ NewActions[k].unit_id = r.unit_id
        /\ NewActions[k].pair_id = r.pair_id
        /\ NewActions[k].timestamp = r.timestamp

\* C30 -- Whole-row removal from the period pool: when a zone has been
\* cleared, every row of the period's pool whose (unit_id, pair_id,
\* timestamp) is that of an accepted action is gone from the pool, partly
\* filled or not accepted from at all, and every other row is still there
\* as it was, in the same order.
C30_WholeRowRemoval ==
    [][pc = "zone" =>
        /\ available_offers' =
              SelectSeq(available_offers, LAMBDA r : ~KeyAccepted(r, "offer"))
        /\ available_bids' =
              SelectSeq(available_bids, LAMBDA r : ~KeyAccepted(r, "bid"))
    ]_vars

\* the last call filled an entry in part, another entry of its stack with
\* the same key was not accepted from, and the period's pool has neither
C30_Witness ==
    /\ InRun
    /\ Called
    /\ \E j, k \in 1..Len(call.before) :
          /\ j # k
          /\ call.before[j].unit_id = call.before[k].unit_id
          /\ call.before[j].pair_id = call.before[k].pair_id
          /\ call.before[j].timestamp = call.before[k].timestamp
          /\ call.after[j].volume_mw > 0
          /\ call.after[j].volume_mw < call.before[j].volume_mw
          /\ call.after[k].volume_mw = call.before[k].volume_mw
          /\ call.before[k].volume_mw > 0
          /\ \A r \in Rows(PeriodPool(call.action_type)) :
                r.idx # call.before[j].idx /\ r.idx # call.before[k].idx

====
